---- MODULE Spec2Model ----
(***************************************************************************)
(* State-machine model of src/src/index.ts: the idle-scheduled array       *)
(* extensions asyncFilter and asyncEach.                                   *)
(*                                                                         *)
(* One step of the model is one host task (the synchronous code of a call, *)
(* one idle callback, or the settling of one pending thenable) together    *)
(* with the promise reactions (microtasks) it triggers, which the host     *)
(* drains before it starts the next task.                                  *)
(*                                                                         *)
(* Indices are 1-based here: index i of the model is JavaScript index i-1. *)
(***************************************************************************)
EXTENDS Integers, Sequences, FiniteSets, TLC

\* Longest input array explored.
MaxLen == 2

\* Longest array handed to reduceKeys / group / Object.groupBy.
MaxItems == 3
\* The longest array of an operation that runs beside another one.
MaxConcLen == 1

\* Operations (calls of asyncFilter / asyncEach) that a behaviour may hold.
\* Spec makes one call, in slot 1.
OpIds == {1, 2}

-----------------------------------------------------------------------------
(* JavaScript values.  Every value is a record of one shape; two values are *)
(* the same value (===) iff the records are equal.                          *)

Val(t, d, n) == [type |-> t, desc |-> d, id |-> n]

Undefined == Val("undefined", "undefined", 0)
False     == Val("boolean", "false", 0)

\* const NilSym = Symbol("NIL");
NilSym == Val("symbol", "NIL", 0)

\* A symbol the caller made with Symbol("NIL"): same description, another symbol.
CallerSym == Val("symbol", "NIL", 1)
\* The string "Symbol(NIL)", which is what String(NilSym) prints.
StrNil    == Val("string", "Symbol(NIL)", 0)
\* Elements that are thenables (for instance promises held in the array).
ThenOk    == Val("thenable", "fulfils", 0)
ThenErr   == Val("thenable", "rejects", 0)
\* What ThenOk fulfils with, and what ThenErr rejects with.
ThenValue == Val("number", "1", 0)
ThenError == Val("error", "thenable", 0)

\* The object a callback passes as thisArg.
Ctx == Val("object", "ctx", 0)

\* The error the callback throws, or its promise rejects with, at index i.
Err(i) == Val("error", "callback", i)
\* The (truthy) object the callback returns, or its promise fulfils with, at i.
Obj(i) == Val("object", "result", i)
\* The promise an asynchronous callback returns at index i; b is its behaviour.
PromiseOf(b, i) == Val("promise", b, i)

\* String(v), the printable form of a value.
StringOf(v) == IF v.type = "symbol" THEN "Symbol(" \o v.desc \o ")" ELSE v.desc

\* ToBoolean(v): of the values above only undefined and false are falsy.
ToBoolean(v) == v # Undefined /\ v # False

IsThenable(v) == v.type \in {"thenable", "promise"}

\* Element values of the input arrays.
Elements == {CallerSym, StrNil, ThenOk, ThenErr}

\* What a predicate / callback does when it is invoked for one index.
SyncBehaviours  == {"returnTruthy", "returnFalsy", "throw"}
AsyncBehaviours == {"asyncTruthy", "asyncFalsy", "asyncReject"}
FilterBehaviours == SyncBehaviours \cup AsyncBehaviours
EachBehaviours   == {"returnTruthy", "throw", "asyncTruthy", "asyncReject"}

Arrays == UNION {[1..n -> Elements] : n \in 0..MaxLen}

-----------------------------------------------------------------------------
VARIABLES
    kind,      \* kind[o]: "none" before the call, then "asyncFilter" / "asyncEach"
    coll,      \* coll[o]: the array the operation was called on (`this`, `a`)
    fn,        \* fn[o][i]: what the predicate / callback does at index i
    thisArg,   \* thisArg[o]: the second argument of the call
    tasks,     \* tasks[o][i]: the idle callback of index i and the item it captured
    calls,     \* calls[o][i]: the invocations of the predicate / callback for index i
    ret,       \* ret[o][i]: state of the promise the callback returned at index i
    inner,     \* inner[o][i]: the promise `new Promise((res) => ...)` of index i
    outer,     \* outer[o]: the promise the async function returned to the caller
    faults,    \* errors that reached the host: uncaught errors, unhandled rejections
    source,    \* the array reduceKeys / group / Object.groupBy are applied to
    folds      \* folds[op]: what the synchronous aggregator op returned or threw

asyncVars == <<kind, coll, fn, thisArg, tasks, calls, ret, inner, outer, faults>>
aggVars == <<source, folds>>
vars == <<kind, coll, fn, thisArg, tasks, calls, ret, inner, outer, faults,
          source, folds>>

\* A promise: its state, fulfilment value, rejection reason, and the thenable
\* it was resolved with and now follows (Undefined when it follows none).
Pending == [state |-> "pending", value |-> Undefined, reason |-> Undefined,
            lockedTo |-> Undefined]

\* The synchronous aggregators, and the result of one that has not run.
Aggregators == {"reduceKeys", "group", "groupBy"}
EmptyObject == [k \in {} |-> Undefined]
NotRun == [status |-> "none", value |-> EmptyObject]

\* The promise of an async function: value is the contents of the array it
\* fulfils with, and ref tells which array object that is: the receiver
\* ("input") or one made by the function ("new").
OuterPending == [state |-> "pending", value |-> <<>>, reason |-> Undefined,
                 ref |-> "none"]

Init ==
    /\ kind = [o \in OpIds |-> "none"]
    /\ coll = [o \in OpIds |-> <<>>]
    /\ fn = [o \in OpIds |-> <<>>]
    /\ thisArg = [o \in OpIds |-> Undefined]
    /\ tasks = [o \in OpIds |-> <<>>]
    /\ calls = [o \in OpIds |-> <<>>]
    /\ ret = [o \in OpIds |-> <<>>]
    /\ inner = [o \in OpIds |-> <<>>]
    /\ outer = [o \in OpIds |-> OuterPending]
    /\ faults = {}
    /\ source = <<>>
    /\ folds = [op \in Aggregators |-> NotRun]

-----------------------------------------------------------------------------
(* Promise machinery.                                                       *)

\* res(x) of `new Promise((res) => ...)`: a thenable x is followed, any other
\* x fulfils the promise; a promise already resolved ignores the call.
ResolveWith(p, x) ==
    IF p.state # "pending" \/ p.lockedTo # Undefined THEN p
    ELSE IF IsThenable(x) THEN [p EXCEPT !.lockedTo = x]
    ELSE [p EXCEPT !.state = "fulfilled", !.value = x]

\* How a thenable settles: <<state, value, reason>>.
Settlement(x) ==
    IF x.type = "thenable"
    THEN IF x.desc = "fulfils" THEN <<"fulfilled", ThenValue, Undefined>>
                               ELSE <<"rejected", Undefined, ThenError>>
    ELSE IF x.desc = "asyncTruthy" THEN <<"fulfilled", Obj(x.id), Undefined>>
    ELSE IF x.desc = "asyncFalsy"  THEN <<"fulfilled", False, Undefined>>
    ELSE <<"rejected", Undefined, Err(x.id)>>

\* The promise p, which follows a thenable, when that thenable settles.
Adopt(p) ==
    LET s == Settlement(p.lockedTo)
    IN  [state |-> s[1], value |-> s[2], reason |-> s[3], lockedTo |-> Undefined]

\* Mutant of IsNil: the Sentinel recognised by its printable form.
IsNilByString(item) == StringOf(item) = StringOf(NilSym)

IsNil(item) == item = NilSym

\* (...).filter((item) => item !== NilSym): the kept values, in a new array.
DropNil(values) == SelectSeq(values, LAMBDA item : ~IsNil(item))

\* Mutant of JoinAll: a rejection is reported only once every one of ps is
\* settled.
JoinAllWhenSettled(out, ps) ==
    IF out.state # "pending" THEN out
    ELSE IF \E i \in DOMAIN ps : ps[i].state = "pending" THEN out
    ELSE IF \E i \in DOMAIN ps : ps[i].state = "rejected"
    THEN LET i == CHOOSE j \in DOMAIN ps : ps[j].state = "rejected"
         IN  [out EXCEPT !.state = "rejected", !.reason = ps[i].reason]
    ELSE [out EXCEPT !.state = "fulfilled", !.ref = "new",
                     !.value = DropNil([i \in DOMAIN ps |-> ps[i].value])]

\* await Promise.all(ps), then .filter(...), as the async function's promise:
\* rejected as soon as one of ps is rejected, fulfilled once all are fulfilled,
\* and settled once only.
JoinAll(out, ps) ==
    IF out.state # "pending" THEN out
    ELSE IF \E i \in DOMAIN ps : ps[i].state = "rejected"
    THEN LET i == CHOOSE j \in DOMAIN ps : ps[j].state = "rejected"
         IN  [out EXCEPT !.state = "rejected", !.reason = ps[i].reason]
    ELSE IF \A i \in DOMAIN ps : ps[i].state = "fulfilled"
    THEN [out EXCEPT !.state = "fulfilled", !.ref = "new",
                     !.value = DropNil([i \in DOMAIN ps |-> ps[i].value])]
    ELSE out

\* One entry of Promise.allSettled's result.
SettledOutcome(p) ==
    IF p.state = "fulfilled"
    THEN [status |-> "fulfilled", value |-> p.value, reason |-> Undefined]
    ELSE [status |-> "rejected", value |-> Undefined, reason |-> p.reason]

\* Mutant of AllSettled: the outcomes in the reverse of index order.
AllSettledReversed(ps) ==
    [i \in DOMAIN ps |-> SettledOutcome(ps[Len(ps) + 1 - i])]

\* Promise.allSettled(ps): the outcomes in index order.
AllSettled(ps) == [i \in DOMAIN ps |-> SettledOutcome(ps[i])]

\* await Promise.allSettled(ps) as the async function's promise: fulfilled once
\* every one of ps is settled, never rejected.
JoinSettled(out, ps) ==
    IF out.state # "pending" THEN out
    ELSE IF \A i \in DOMAIN ps : ps[i].state \in {"fulfilled", "rejected"}
    THEN [out EXCEPT !.state = "fulfilled", !.ref = "new",
                     !.value = AllSettled(ps)]
    ELSE out

\* Mutant of OwnPromises: the element promises of all the operations are kept
\* in one list shared by the module, and every join waits for that list.
SharedPromises(o, all) == all[1] \o all[2]

\* The promises an operation joins: the array its own this.map(...) returned,
\* a value local to the call.
OwnPromises(o, all) == all[o]

\* Mutant of Join: the join settles only on the settlement of an element
\* promise, so with no element promise it never settles.
JoinOnSettlement(k, out, ps) ==
    IF ps = <<>> THEN out
    ELSE IF k = "asyncFilter" THEN JoinAll(out, ps) ELSE JoinSettled(out, ps)

Join(k, out, ps) ==
    IF k = "asyncFilter" THEN JoinAll(out, ps) ELSE JoinSettled(out, ps)

-----------------------------------------------------------------------------
(* The operations.                                                          *)

\* The receiver the predicate / callback runs with: the rest parameter is
\* destructured as [filter] / [forEach], so thisArg is not kept, and the
\* function is called plainly, filter(item, i, a).
Receiver(arg) == Undefined

\* Mutant of Dispatch: the idle callback of an index is requested only when
\* the one before it has run; at the call only index 1 is handed over.
DispatchChained(arr) ==
    [i \in DOMAIN arr |->
        [item |-> arr[i], state |-> IF i = 1 THEN "scheduled" ELSE "waiting"]]

\* this.map((item, i, a) => ... requestIdleCallback(...)): map runs to its end
\* inside the call, so every index has its idle callback requested, with the
\* element map passed for that index, before the call returns.
Dispatch(arr) ==
    [i \in DOMAIN arr |-> [item |-> arr[i], state |-> "scheduled"]]

\* this.map((item, i, a) => new Promise((res) => requestIdleCallback(...))):
\* one pending promise and one scheduled idle callback per index, then the join.
Call(o, k, arr, f, arg) ==
    /\ kind' = [kind EXCEPT ![o] = k]
    /\ coll' = [coll EXCEPT ![o] = arr]
    /\ fn' = [fn EXCEPT ![o] = f]
    /\ thisArg' = [thisArg EXCEPT ![o] = arg]
    /\ tasks' = [tasks EXCEPT ![o] = Dispatch(arr)]
    /\ calls' = [calls EXCEPT ![o] = [i \in DOMAIN arr |-> <<>>]]
    /\ ret' = [ret EXCEPT ![o] = [i \in DOMAIN arr |-> "none"]]
    /\ inner' = [inner EXCEPT ![o] = [i \in DOMAIN arr |-> Pending]]
    /\ outer' = [outer EXCEPT ![o] = Join(k, OuterPending, OwnPromises(o, inner'))]
    /\ UNCHANGED <<faults, aggVars>>

CallAsyncFilter(o) ==
    /\ kind[o] = "none"
    /\ \E arr \in Arrays, arg \in {Undefined, Ctx} :
         \E f \in [DOMAIN arr -> FilterBehaviours] :
             Call(o, "asyncFilter", arr, f, arg)

CallAsyncEach(o) ==
    /\ kind[o] = "none"
    /\ \E arr \in Arrays, arg \in {Undefined, Ctx} :
         \E f \in [DOMAIN arr -> EachBehaviours] :
             Call(o, "asyncEach", arr, f, arg)

\* What the invocation at index i returns when it does not throw.
Returned(b, i) ==
    IF b = "returnTruthy" THEN Obj(i)
    ELSE IF b = "returnFalsy" THEN False
    ELSE PromiseOf(b, i)

\* The argument of res(...) in the idle callback.
\*   asyncFilter: filter(item, i, a) ? item : NilSym
\*   asyncEach:   forEach(item, i, a)
Resolution(k, item, r) ==
    IF k = "asyncFilter" THEN (IF ToBoolean(r) THEN item ELSE NilSym) ELSE r

\* Mutant of Runnable: the idle callbacks still queued are cancelled once the
\* operation's promise has settled or an invocation of the operation has thrown.
RunnableUntilFailure(o, i) ==
    /\ tasks[o][i].state = "scheduled"
    /\ outer[o].state = "pending"
    /\ \A x \in faults : x.op # o

\* An idle callback handed to requestIdleCallback stays queued until the host
\* runs it: the handle requestIdleCallback returns is dropped, so nothing can
\* cancel it.
Runnable(o, i) == tasks[o][i].state = "scheduled"

\* Mutant of ArrayAfterTask: the outcome of index i is stored in the array
\* itself, a dropped element being overwritten with the Sentinel.
MarkedInPlace(a, i, x) == [a EXCEPT ![i] = x]

\* The array after the idle callback of index i has called res(x): the
\* callback reads item, i and a and assigns to none of them.
ArrayAfterTask(a, i, x) == a

\* The idle callback of index i runs: it invokes the predicate / callback and
\* hands the outcome to res.  A throw leaves the idle callback before res is
\* called: the error goes to the host and the promise stays pending.
RunIdleTask(o, i) ==
    /\ kind[o] # "none"
    /\ i \in DOMAIN tasks[o]
    /\ Runnable(o, i)
    /\ LET b    == fn[o][i]
           item == tasks[o][i].item
           r    == Returned(b, i)
           inv  == [item |-> item, index |-> i, array |-> o,
                    this |-> Receiver(thisArg[o])]
       IN  /\ tasks' = [tasks EXCEPT ![o][i].state = "ran"]
           /\ calls' = [calls EXCEPT ![o][i] = Append(@, inv)]
           /\ IF b = "throw"
              THEN /\ faults' = faults \cup
                        {[what |-> "uncaught", error |-> Err(i), op |-> o, index |-> i]}
                   /\ UNCHANGED <<coll, ret, inner, outer>>
              ELSE /\ coll' = [coll EXCEPT ![o] = ArrayAfterTask(
                                @, i, Resolution(kind[o], item, r))]
                   /\ ret' = [ret EXCEPT ![o][i] =
                                IF IsThenable(r) THEN "pending" ELSE "none"]
                   /\ inner' = [inner EXCEPT ![o][i] =
                                ResolveWith(@, Resolution(kind[o], item, r))]
                   /\ outer' = [outer EXCEPT ![o] = Join(kind[o], @, OwnPromises(o, inner'))]
                   /\ UNCHANGED faults
    /\ UNCHANGED <<kind, fn, thisArg, aggVars>>

\* The promise the callback returned at index i settles.  In asyncEach the
\* inner promise follows it; in asyncFilter nothing does, and its rejection
\* is an unhandled rejection.
SettleResult(o, i) ==
    /\ i \in DOMAIN ret[o]
    /\ ret[o][i] = "pending"
    /\ LET p == PromiseOf(fn[o][i], i)
           s == Settlement(p)
           followed == inner[o][i].lockedTo = p
       IN  /\ ret' = [ret EXCEPT ![o][i] = s[1]]
           /\ inner' = IF followed THEN [inner EXCEPT ![o][i] = Adopt(@)] ELSE inner
           /\ faults' = IF s[1] = "rejected" /\ ~followed
                        THEN faults \cup {[what |-> "unhandledrejection",
                                           error |-> s[3], op |-> o, index |-> i]}
                        ELSE faults
           /\ outer' = [outer EXCEPT ![o] = Join(kind[o], @, OwnPromises(o, inner'))]
    /\ UNCHANGED <<kind, coll, fn, thisArg, tasks, calls, aggVars>>

\* The thenable element that inner[o][i] follows settles.
SettleThenable(o, i) ==
    /\ i \in DOMAIN inner[o]
    /\ inner[o][i].lockedTo.type = "thenable"
    /\ inner' = [inner EXCEPT ![o][i] = Adopt(@)]
    /\ outer' = [outer EXCEPT ![o] = Join(kind[o], @, OwnPromises(o, inner'))]
    /\ UNCHANGED <<kind, coll, fn, thisArg, tasks, calls, ret, faults, aggVars>>

Next ==
    \/ CallAsyncFilter(1)
    \/ CallAsyncEach(1)
    \/ \E i \in 1..MaxLen : RunIdleTask(1, i)
    \/ \E i \in 1..MaxLen : SettleResult(1, i)
    \/ \E i \in 1..MaxLen : SettleThenable(1, i)

Spec == Init /\ [][Next]_vars

\* The host's idle scheduler runs every idle callback that stays queued.
FairSpec == Spec /\ \A i \in 1..MaxLen : WF_vars(RunIdleTask(1, i))


-----------------------------------------------------------------------------
(* The caller writing to the array while the operation is in flight.        *)

\* The value the caller stores; it is no element of any array called on.
Written == Val("string", "written", 0)

\* A call with a synchronous predicate / callback and no thisArg.
CallSync(o) ==
    /\ kind[o] = "none"
    /\ \E arr \in Arrays, k \in {"asyncFilter", "asyncEach"} :
         \E f \in [DOMAIN arr -> SyncBehaviours] :
             Call(o, k, arr, f, Undefined)

\* The caller, which holds the array, assigns to index i after the call has
\* returned and before the idle callback of index i has run.
Overwrite(o, i) ==
    /\ kind[o] # "none"
    /\ i \in DOMAIN coll[o]
    /\ tasks[o][i].state = "scheduled"
    /\ coll[o][i] # Written
    /\ coll' = [coll EXCEPT ![o][i] = Written]
    /\ UNCHANGED <<kind, fn, thisArg, tasks, calls, ret, inner, outer, faults,
                   aggVars>>

NextMut ==
    \/ CallSync(1)
    \/ \E i \in 1..MaxLen : Overwrite(1, i)
    \/ \E i \in 1..MaxLen : RunIdleTask(1, i)
    \/ \E i \in 1..MaxLen : SettleThenable(1, i)

SpecMut == Init /\ [][NextMut]_vars

-----------------------------------------------------------------------------
(* Two operations in flight at the same time.                               *)

ConcArrays == UNION {[1..n -> {CallerSym, ThenErr}] : n \in 0..MaxConcLen}

\* A call, with a synchronous predicate / callback, made while another
\* operation may be in flight.
CallConc(o) ==
    /\ kind[o] = "none"
    /\ \E arr \in ConcArrays, k \in {"asyncFilter", "asyncEach"} :
         \E f \in [DOMAIN arr -> SyncBehaviours] :
             Call(o, k, arr, f, Undefined)

\* The host runs the queued idle callbacks of the two operations, and settles
\* the thenables, in any order.
NextConc ==
    \/ \E o \in OpIds : CallConc(o)
    \/ \E o \in OpIds : \E i \in 1..MaxConcLen : RunIdleTask(o, i)
    \/ \E o \in OpIds : \E i \in 1..MaxConcLen : SettleThenable(o, i)

SpecConc == Init /\ [][NextConc]_vars

-----------------------------------------------------------------------------
(* The synchronous aggregators: reduceKeys, group, Object.groupBy.          *)

\* Values of the key field, and the keys the grouping callback returns.
KeyValues == {Val("number", "1", 0), Val("string", "1", 0), Val("string", "a", 0)}
GroupKeys == {"x", "y", "toString"}

\* An element: an object with a key field and a type field; id tells apart
\* objects that carry the same fields.
Item(k, t, n) == [key |-> k, type |-> t, id |-> n]

Items(n) == {Item(k, t, n) : k \in KeyValues, t \in GroupKeys}

\* The arrays: the object at position n is object n.
Sources ==
    UNION {{a \in [1..n -> UNION {Items(m) : m \in 1..n}] :
               \A i \in 1..n : a[i].id = i} : n \in 0..MaxItems}

\* The property key a value used as a computed key names: ToPropertyKey
\* turns a number into its decimal string.
PropertyKey(v) == StringOf(v)

\* Mutant of PutKey: a key already present keeps its first element.
PutKeyFirstWins(keyObj, k, item) ==
    IF k \in DOMAIN keyObj THEN keyObj
    ELSE [x \in DOMAIN keyObj \cup {k} |-> IF x = k THEN item ELSE keyObj[x]]

\* ({ ...keyObj, [k]: item })
PutKey(keyObj, k, item) ==
    [x \in DOMAIN keyObj \cup {k} |-> IF x = k THEN item ELSE keyObj[x]]

\* this.reduce((keyObj, item) => ({ ...keyObj, [item[key]]: item }), {})
\* over the elements from position i on.
RECURSIVE ReduceKeysFrom(_, _, _)
ReduceKeysFrom(arr, i, keyObj) ==
    IF i > Len(arr) THEN keyObj
    ELSE ReduceKeysFrom(arr, i + 1, PutKey(keyObj, PropertyKey(arr[i].key), arr[i]))

\* Names every object inherits from Object.prototype.
ObjectPrototypeKeys == {"constructor", "toString", "__proto__"}

\* key in record: own properties and inherited ones.
In(key, record) == key \in DOMAIN record \/ key \in ObjectPrototypeKeys

\* callbackfn(object, index): the grouping callback returns the type field.
Callbackfn(object, index) == object.type

\* The reduce of group / Object.groupBy from position i on.  A key that is
\* `in` the record without being its own property reads an inherited value,
\* which has no push: the call throws a TypeError.
RECURSIVE GroupFrom(_, _, _)
GroupFrom(arr, i, record) ==
    IF i > Len(arr) THEN [status |-> "returned", value |-> record]
    ELSE LET key == Callbackfn(arr[i], i)
         IN  IF ~In(key, record)
             THEN GroupFrom(arr, i + 1,
                    [x \in DOMAIN record \cup {key} |->
                        IF x = key THEN <<arr[i]>> ELSE record[x]])
             ELSE IF key \in DOMAIN record
             THEN GroupFrom(arr, i + 1,
                    [record EXCEPT ![key] = Append(@, arr[i])])
             ELSE [status |-> "threw", value |-> record]

\* Array.prototype.reduceKeys
ReduceKeys ==
    /\ folds["reduceKeys"].status = "none"
    /\ folds' = [folds EXCEPT !["reduceKeys"] =
                    [status |-> "returned",
                     value |-> ReduceKeysFrom(source, 1, EmptyObject)]]
    /\ UNCHANGED <<source, asyncVars>>

\* Array.prototype.group
Group ==
    /\ folds["group"].status = "none"
    /\ folds' = [folds EXCEPT !["group"] = GroupFrom(source, 1, EmptyObject)]
    /\ UNCHANGED <<source, asyncVars>>

\* Object.groupBy
GroupBy ==
    /\ folds["groupBy"].status = "none"
    /\ folds' = [folds EXCEPT !["groupBy"] = GroupFrom(source, 1, EmptyObject)]
    /\ UNCHANGED <<source, asyncVars>>

InitAgg ==
    /\ kind = [o \in OpIds |-> "none"]
    /\ coll = [o \in OpIds |-> <<>>]
    /\ fn = [o \in OpIds |-> <<>>]
    /\ thisArg = [o \in OpIds |-> Undefined]
    /\ tasks = [o \in OpIds |-> <<>>]
    /\ calls = [o \in OpIds |-> <<>>]
    /\ ret = [o \in OpIds |-> <<>>]
    /\ inner = [o \in OpIds |-> <<>>]
    /\ outer = [o \in OpIds |-> OuterPending]
    /\ faults = {}
    /\ source \in Sources
    /\ folds = [op \in Aggregators |-> NotRun]

NextAgg ==
    \/ ReduceKeys
    \/ Group
    \/ GroupBy

SpecAgg == InitAgg /\ [][NextAgg]_vars

-----------------------------------------------------------------------------
(* Vocabulary of the properties.                                            *)

Called(o, k) == kind[o] = k

\* Nothing of operation o is left to run: every idle callback has run and
\* every thenable that was pending has settled.
Quiescent(o) ==
    /\ kind[o] # "none"
    /\ \A i \in DOMAIN tasks[o] :
          /\ tasks[o][i].state = "ran"
          /\ ret[o][i] # "pending"
          /\ inner[o][i].lockedTo = Undefined

\* The elements of arr at the indices in keep, in index order.
Subseq(arr, keep) ==
    LET idx == SelectSeq([i \in 1..Len(arr) |-> i], LAMBDA i : i \in keep)
    IN  [j \in 1..Len(idx) |-> arr[idx[j]]]

\* arr.filter(predicate) for a synchronous predicate that behaves as f says.
ArrayFilter(arr, f) ==
    Subseq(arr, {i \in DOMAIN arr : ToBoolean(Returned(f[i], i))})

Fulfilled(v) == [status |-> "fulfilled", value |-> v, reason |-> Undefined]
Rejected(e)  == [status |-> "rejected", value |-> Undefined, reason |-> e]

\* The Settled Outcome of the invocation at index i with behaviour b.
OutcomeOf(b, i) ==
    IF b \in {"returnTruthy", "asyncTruthy"} THEN Fulfilled(Obj(i))
    ELSE IF b \in {"returnFalsy", "asyncFalsy"} THEN Fulfilled(False)
    ELSE Rejected(Err(i))

Occurrences(seq, v) == Cardinality({k \in DOMAIN seq : seq[k] = v})

\* Values other than the Sentinel that print the way the Sentinel prints.
Lookalikes == {e \in Elements : e # NilSym /\ StringOf(e) = StringOf(NilSym)}

-----------------------------------------------------------------------------
(* C1 .. C10                                                                *)

\* C1: for a synchronous predicate that never throws, asyncFilter's promise
\* fulfils, whatever the order of the idle tasks, with exactly the sequence
\* Array.filter returns: the same elements in the same order.
C1_FilterEqualsArrayFilter ==
    \A o \in OpIds :
        (/\ Called(o, "asyncFilter")
         /\ \A i \in DOMAIN fn[o] : fn[o][i] \in {"returnTruthy", "returnFalsy"})
        => /\ outer[o].state # "rejected"
           /\ outer[o].state = "fulfilled"
                => outer[o].value = ArrayFilter(coll[o], fn[o])
           /\ Quiescent(o) => outer[o].state = "fulfilled"

\* C2: when the predicate throws synchronously for some index, asyncFilter's
\* promise is rejected with the error of a failing task and is never
\* fulfilled.
C2_ThrowRejectsFilter ==
    \A o \in OpIds :
        (/\ Called(o, "asyncFilter")
         /\ \E i \in DOMAIN fn[o] : fn[o][i] = "throw")
        => /\ outer[o].state # "fulfilled"
           /\ Quiescent(o) =>
                /\ outer[o].state = "rejected"
                /\ \E i \in DOMAIN fn[o] :
                      fn[o][i] = "throw" /\ outer[o].reason = Err(i)

\* C3: whatever the callback does, also when it throws synchronously,
\* asyncEach's promise is never rejected and is fulfilled once every
\* dispatched idle task has run.
C3_EachAlwaysFulfils ==
    \A o \in OpIds :
        Called(o, "asyncEach")
        => /\ outer[o].state # "rejected"
           /\ Quiescent(o) => outer[o].state = "fulfilled"

\* C4: when the callback throws synchronously for index j only, asyncEach
\* resolves to the sequence whose entry j is rejected with the thrown error
\* and whose other entries are the fulfilled outcomes of their own indices.
C4_ThrowIsSettledOutcome ==
    \A o \in OpIds : \A j \in DOMAIN fn[o] :
        (/\ Called(o, "asyncEach")
         /\ fn[o][j] = "throw"
         /\ \A i \in DOMAIN fn[o] \ {j} : fn[o][i] \in {"returnTruthy", "asyncTruthy"}
         /\ Quiescent(o))
        => /\ outer[o].state = "fulfilled"
           /\ outer[o].value = [i \in DOMAIN fn[o] |-> OutcomeOf(fn[o][i], i)]

\* C5: when the callback returns at index j a promise that rejects with e,
\* asyncEach still resolves, entry j is rejected with reason e, and the
\* rejection is observed (it never becomes an unhandled rejection).
C5_AsyncRejectionIsSettledOutcome ==
    \A o \in OpIds : \A j \in DOMAIN fn[o] :
        (Called(o, "asyncEach") /\ fn[o][j] = "asyncReject")
        => /\ \A f \in faults :
                ~(f.what = "unhandledrejection" /\ f.op = o /\ f.index = j)
           /\ outer[o].state = "fulfilled" => outer[o].value[j] = Rejected(Err(j))
           /\ Quiescent(o) => outer[o].state = "fulfilled"

C7_AsyncRejectionRejectsFilter ==
    \A o \in OpIds : \A i \in DOMAIN fn[o] :
        (/\ Called(o, "asyncFilter")
         /\ fn[o][i] = "asyncReject"
         /\ ret[o][i] = "rejected")
        => /\ inner[o][i].state = "rejected"
           /\ inner[o][i].reason = Err(i)
           /\ outer[o].state = "rejected"

\* C8: with an asynchronous predicate, element i is kept iff the value the
\* returned promise fulfils with is truthy.
C8_AsyncPredicateDecides ==
    \A o \in OpIds :
        (/\ Called(o, "asyncFilter")
         /\ \A i \in DOMAIN fn[o] :
               fn[o][i] \in {"asyncTruthy", "asyncFalsy"} /\ ~IsThenable(coll[o][i])
         /\ outer[o].state = "fulfilled")
        => outer[o].value =
             Subseq(coll[o], {i \in DOMAIN fn[o] : fn[o][i] = "asyncTruthy"})

\* C9: the Sentinel is in no array asyncFilter resolves to, and an element
\* that only prints like the Sentinel (the string "Symbol(NIL)", another
\* symbol described "NIL") and passes the predicate is kept.
C9_SentinelByIdentity ==
    \A o \in OpIds :
        (Called(o, "asyncFilter") /\ outer[o].state = "fulfilled")
        => /\ \A k \in DOMAIN outer[o].value : outer[o].value[k] # NilSym
           /\ \A e \in Lookalikes :
                Occurrences(outer[o].value, e) >=
                    Cardinality({i \in DOMAIN coll[o] :
                                    coll[o][i] = e /\ fn[o][i] = "returnTruthy"})

\* An asyncFilter over two elements that print like the Sentinel has resolved
\* to the one that passed; the other one was replaced by the Sentinel.
C9_Witness ==
    /\ Called(1, "asyncFilter")
    /\ outer[1].state = "fulfilled"
    /\ coll[1] = <<StrNil, CallerSym>>
    /\ fn[1] = <<"returnFalsy", "returnTruthy">>
    /\ inner[1][1].value = NilSym
    /\ outer[1].value = <<CallerSym>>

\* C10: every invocation of the predicate / callback runs with the thisArg
\* of the call as its receiver (undefined when it was omitted).
C10_ReceiverIsThisArg ==
    \A o \in OpIds : \A i \in DOMAIN calls[o] :
        \A k \in DOMAIN calls[o][i] : calls[o][i][k].this = thisArg[o]

-----------------------------------------------------------------------------
(* C11 .. C19                                                               *)

Max(S) == CHOOSE x \in S : \A y \in S : y <= x

\* C11 (as claimed): reduceKeys returns a mapping with exactly one entry for
\* each distinct key value of the array, and the entry of a key value is the
\* last element that carries that key value.
C11_OneEntryPerKeyValue ==
    folds["reduceKeys"].status = "returned"
    => LET r == folds["reduceKeys"].value
       IN  /\ Cardinality(DOMAIN r) =
                 Cardinality({source[i].key : i \in DOMAIN source})
           /\ \A i \in DOMAIN source :
                 r[PropertyKey(source[i].key)] =
                    source[Max({j \in DOMAIN source : source[j].key = source[i].key})]

\* C11 (amended): reduceKeys returns a mapping with exactly one entry for
\* each distinct property key the key values convert to (the number 1 and
\* the string "1" are one key), and the entry of a property key is the last
\* element whose key value converts to it.
C11_OneEntryPerPropertyKey ==
    folds["reduceKeys"].status = "returned"
    => LET r == folds["reduceKeys"].value
       IN  /\ DOMAIN r = {PropertyKey(source[i].key) : i \in DOMAIN source}
           /\ \A k \in DOMAIN r :
                 r[k] = source[Max({j \in DOMAIN source :
                                        PropertyKey(source[j].key) = k})]

\* reduceKeys has returned for an array whose first and third element carry
\* the same key: the third one is the entry.
C11_Witness ==
    /\ folds["reduceKeys"].status = "returned"
    /\ Len(source) = 3
    /\ source[1].key = source[3].key
    /\ source[2].key # source[1].key
    /\ folds["reduceKeys"].value[PropertyKey(source[1].key)] = source[3]
    /\ Cardinality(DOMAIN folds["reduceKeys"].value) = 2

\* C12: for every key function, whatever string keys it returns, group and
\* Object.groupBy return the same mapping, whose keys are the keys the
\* function returned and whose value at k is the elements with key k in
\* input order.
C12_GroupPartitionsInput ==
    /\ \A op \in {"group", "groupBy"} :
          folds[op].status # "none"
          => /\ folds[op].status = "returned"
             /\ DOMAIN folds[op].value =
                   {Callbackfn(source[i], i) : i \in DOMAIN source}
             /\ \A k \in DOMAIN folds[op].value :
                   folds[op].value[k] =
                      SelectSeq(source, LAMBDA object : object.type = k)
    /\ (folds["group"].status # "none" /\ folds["groupBy"].status # "none")
          => folds["group"] = folds["groupBy"]

C16_InputNotWritten ==
    \A o \in OpIds :
        kind[o] # "none"
        => /\ Len(coll[o]) = Len(tasks[o])
           /\ \A i \in DOMAIN coll[o] : coll[o][i] = tasks[o][i].item
           /\ (kind[o] = "asyncFilter" /\ outer[o].state = "fulfilled")
                => outer[o].ref = "new"

\* asyncFilter has fulfilled with fewer elements than the array it was
\* called on has, and that array still has them all.
C16_Witness ==
    /\ kind[1] = "asyncFilter"
    /\ outer[1].state = "fulfilled"
    /\ Len(outer[1].value) < Len(coll[1])
    /\ Len(coll[1]) >= 2
    /\ \E i \in DOMAIN fn[1] : fn[1][i] = "returnFalsy"

\* The number of indices up to i whose element the predicate keeps: the
\* place in asyncFilter's result of the element kept at index i.
KeptUpTo(o, i) ==
    Cardinality({j \in 1..i : ToBoolean(Returned(fn[o][j], j))})

\* C17: an element task works on the element the array held at its index
\* when the function was called.  For an index the caller has overwritten
\* before its task ran, the predicate is passed the call-time element, and
\* when the predicate keeps it, asyncFilter's result holds the call-time
\* element at its place, not the value now stored at the index.
C17_TaskUsesCapturedElement ==
    \A o \in OpIds :
        kind[o] = "asyncFilter"
        => \A i \in DOMAIN coll[o] :
              coll[o][i] # tasks[o][i].item
              => /\ \A n \in DOMAIN calls[o][i] :
                       calls[o][i][n].item = tasks[o][i].item
                 /\ (outer[o].state = "fulfilled" /\ fn[o][i] = "returnTruthy")
                      => outer[o].value[KeptUpTo(o, i)] = tasks[o][i].item

\* The array as it was when operation o was called.
CallTime(o) == [i \in DOMAIN tasks[o] |-> tasks[o][i].item]

\* What an element promise resolved with x is fulfilled with.
Unwrapped(x) == IF IsThenable(x) THEN Settlement(x)[2] ELSE x

\* The promise of an operation that runs alone, with a synchronous
\* predicate / callback behaving as f says, once nothing of it is left to
\* run, read off the code for one call: asyncFilter is rejected when a kept
\* element is a rejecting thenable, is left pending when an invocation throws,
\* and otherwise fulfils with the kept elements; asyncEach is left pending
\* when an invocation throws and otherwise fulfils with the outcomes.
AloneResult(k, arr, f) ==
    LET threw == \E i \in DOMAIN f : f[i] = "throw"
        kept  == {i \in DOMAIN f : f[i] = "returnTruthy"}
    IN  IF k = "asyncFilter"
        THEN IF \E i \in kept :
                    IsThenable(arr[i]) /\ Settlement(arr[i])[1] = "rejected"
             THEN [OuterPending EXCEPT !.state = "rejected", !.reason = ThenError]
             ELSE IF threw THEN OuterPending
             ELSE LET r == Subseq(arr, kept)
                  IN  [OuterPending EXCEPT !.state = "fulfilled", !.ref = "new",
                          !.value = [j \in DOMAIN r |-> Unwrapped(r[j])]]
        ELSE IF threw THEN OuterPending
             ELSE [OuterPending EXCEPT !.state = "fulfilled", !.ref = "new",
                      !.value = [j \in DOMAIN f |-> OutcomeOf(f[j], j)]]

\* C18: operations in flight at the same time do not interfere.  However the
\* idle callbacks of two operations are interleaved, the promise of each,
\* once it has settled or nothing of the operation is left to run, is what
\* the operation gives when it runs alone on its own array and function.
C18_ResultAsIfAlone ==
    \A o \in OpIds :
        (outer[o].state # "pending" \/ Quiescent(o))
        => outer[o] = AloneResult(kind[o], CallTime(o), fn[o])

\* Two operations on arrays that are not empty have both run to their end:
\* an asyncFilter that dropped every element and an asyncEach that fulfilled.
C18_Witness ==
    /\ kind[1] = "asyncFilter" /\ kind[2] = "asyncEach"
    /\ Quiescent(1) /\ Quiescent(2)
    /\ Len(coll[1]) >= 1 /\ Len(coll[2]) >= 1
    /\ outer[1].state = "fulfilled" /\ outer[1].value = <<>>
    /\ outer[2].state = "fulfilled" /\ Len(outer[2].value) = Len(coll[2])

\* C19: on an empty array asyncFilter and asyncEach request no idle callback
\* and never invoke the predicate / callback, and their promise is fulfilled
\* with an empty sequence in the state the call returns in, before and
\* whether or not the idle scheduler does anything.
C19_EmptyArrayFulfils ==
    \A o \in OpIds :
        (kind[o] # "none" /\ coll[o] = <<>>)
        => /\ tasks[o] = <<>>
           /\ calls[o] = <<>>
           /\ \A x \in faults : x.op # o
           /\ outer[o].state = "fulfilled"
           /\ outer[o].value = <<>>

\* asyncEach has been called on an empty array and its promise is fulfilled.
C19_Witness ==
    /\ kind[1] = "asyncEach"
    /\ coll[1] = <<>>
    /\ tasks[1] = <<>>
    /\ outer[1].state = "fulfilled"

====
